---- MODULE Spec2Model ----
(***************************************************************************)
(* Model of scan_market.py: the market-wide multi-strategy scanner         *)
(* (market_scan_all_strategies) and the cross-strategy ranking aggregator  *)
(* (compute_overall_ranking).                                              *)
(*                                                                         *)
(* Numbers: the metrics the engine returns are integers (which float64     *)
(* holds exactly, as it does their sums). The averages and the score of    *)
(* the aggregator are float64 values, computed with the rounding of the    *)
(* float division and multiplication (round to nearest, ties to even).     *)
(*                                                                         *)
(* A csv path "<ticker>_<name>.csv" is the integer that stands for its     *)
(* ticker; the directory listing holds each ticker once.                   *)
(*                                                                         *)
(* The strategy labels are written in ASCII: BuLinTongDao, DongLiangTuPo,  *)
(* LiangJiaTuPo, HaiGuiCeLue, WaiZiLianMai, TouXinLianMai stand for        *)
(* 布林通道, 動量突破, 量價突破, 海龜策略, 外資連買, 投信連買.                  *)
(*                                                                         *)
(* DataFrame.sort_values is called with its default kind ('quicksort'),    *)
(* which pandas documents as not stable: the order of rows with equal keys *)
(* is not determined by the call. The sort is an argsort of the key        *)
(* column, so argsort is the SET of the sorting permutations of the keys,  *)
(* and within one run equal key columns get the same permutation.          *)
(*                                                                         *)
(* Inputs: the whole battery is run (8 price-only strategies, and the 2    *)
(* institutional ones when the dataset is loaded). For one instrument the  *)
(* engine answers the first strategy with one of EngineAnswers and every   *)
(* later strategy with another; the loop over the strategies of one        *)
(* instrument is one step. The aggregator on its own is given leaderboards *)
(* in which a ticker is in the first depth of them, 0 <= depth <= 10.      *)
(***************************************************************************)
EXTENDS Integers, Sequences, FiniteSets, TLC

\* ------------------------------------------------------------------ bounds
\* Number of csv files glob can return.
NumFiles == 2
\* Largest top_n a scan (or an aggregation) is called with.
MaxTopN == 2

\* ------------------------------------------------------- program constants
\* top_n=30 default of compute_overall_ranking.
DefaultTopN == 30
\* min_volume=500 default of market_scan_all_strategies.
DefaultMinVolume == 500
\* "if m['trade_count'] >= 3".
MinTrades == 3
\* "stats['strategies'][:3]" and "strategy_count > 3".
ShownStrategies == 3

\* ------------------------------------------------------------- the battery
\* The price-only strategies of get_all_strategies, in order.
PriceStrategies ==
    <<"MA5x20", "MA5x60", "RSI", "MACD",
      "BuLinTongDao", "DongLiangTuPo", "LiangJiaTuPo", "HaiGuiCeLue">>

\* The institutional strategies get_all_strategies appends.
InstitutionalStrategies == <<"WaiZiLianMai", "TouXinLianMai">>

\* "'連買' in strategy_name or '連賣' in strategy_name": of the labels of the
\* battery, the two institutional ones contain the marker.
IsInstitutional(strategy_name) ==
    strategy_name \in {"WaiZiLianMai", "TouXinLianMai"}

\* get_all_strategies(include_institutional=True); inst_data is
\* "INSTITUTIONAL_DATA is not None".
get_all_strategies(include_institutional, inst_data) ==
    IF include_institutional /\ inst_data
    THEN PriceStrategies \o InstitutionalStrategies
    ELSE PriceStrategies

\* Every label of the battery.
AllNames ==
    {PriceStrategies[i] : i \in DOMAIN PriceStrategies}
        \cup {InstitutionalStrategies[i] : i \in DOMAIN InstitutionalStrategies}

\* ------------------------------------------------------------------ inputs
\* What df['volume'].mean() can be: just below the gate, and on it.
MeanVolumes == {DefaultMinVolume - 1, DefaultMinVolume}

\* result['metrics'] as the backtest engine can return it.
Metrics ==
    { [total_return |-> 5, sharpe_ratio |-> 9, max_drawdown |-> 1, win_rate |-> 1, trade_count |-> 2],
      [total_return |-> -2, sharpe_ratio |-> -1, max_drawdown |-> 4, win_rate |-> 0, trade_count |-> 3],
      [total_return |-> 3, sharpe_ratio |-> 5, max_drawdown |-> 2, win_rate |-> 1, trade_count |-> 5] }

NoMetrics ==
    [total_return |-> 0, sharpe_ratio |-> 0, max_drawdown |-> 0, win_rate |-> 0, trade_count |-> 0]

\* What one call engine.run(run_df, strategy) did: not made, raised, returned.
NotRun == [status |-> "not_run", metrics |-> NoMetrics]
Raised == [status |-> "raised", metrics |-> NoMetrics]
Returned(m) == [status |-> "returned", metrics |-> m]

\* What engine.run can do when it is called.
EngineAnswers == {Raised} \cup {Returned(m) : m \in Metrics}

VARIABLES
    top_n,               \* argument of market_scan_all_strategies / compute_overall_ranking
    min_volume,          \* argument of market_scan_all_strategies
    INSTITUTIONAL_DATA,  \* TRUE iff the module-level dataset was loaded (is not None)
    stock_dir_exists,    \* whether STOCK_DIR can be listed
    files,               \* glob(STOCK_DIR/*.csv)
    pc,                  \* position in market_scan_all_strategies
    fi,                  \* index of csv_path in files
    volume,              \* per file: what read_csv and the volume mean gave
    df_with_inst,        \* per file: "unset", "None", "empty" or "ok"
    engine,              \* per file and strategy: what engine.run did
    results,             \* results[strategy_name]: accumulated rows, then the leaderboard
    overall_ranking      \* the composite ranking

vars ==
    <<top_n, min_volume, INSTITUTIONAL_DATA, stock_dir_exists, files, pc, fi,
      volume, df_with_inst, engine, results, overall_ranking>>

\* ------------------------------------------------------------ pure helpers
Min(a, b) == IF a < b THEN a ELSE b

Abs(a) == IF a < 0 THEN -a ELSE a

\* sum(list)
RECURSIVE Sum(_)
Sum(list) == IF list = <<>> THEN 0 ELSE Head(list) + Sum(Tail(list))

\* ------------------------------------------------------------------ floats
\* A float64 that is not zero is sign * (hi * 2^27 + lo) * 2^exp with a
\* significand of 53 bits: 2^25 <= hi < 2^26 and 0 <= lo < 2^27.
LimbBits == 27

Limb == 2^LimbBits

HiMin == 2^(LimbBits - 2)

HiMax == 2^(LimbBits - 1)

FloatZero == [sign |-> 0, hi |-> 0, lo |-> 0, exp |-> 0]

\* The float one unit in the last place further from zero.
SigUp(x) ==
    IF x.lo + 1 < Limb THEN [x EXCEPT !.lo = x.lo + 1]
    ELSE IF x.hi + 1 < HiMax THEN [x EXCEPT !.hi = x.hi + 1, !.lo = 0]
    ELSE [x EXCEPT !.hi = HiMin, !.lo = 0, !.exp = x.exp + 1]

\* Round to nearest, ties to even. half says where the dropped part lies:
\* 0 below one half of the last place, 1 on it, 2 above it.
RoundNearestEven(x, half) ==
    IF half = 2 \/ (half = 1 /\ x.lo % 2 = 1) THEN SigUp(x) ELSE x

\* The number of bits of n.
RECURSIVE BitLength(_)
BitLength(n) == IF n = 0 THEN 0 ELSE 1 + BitLength(n \div 2)

\* The least z with a * 2^z >= c, for a > 0.
RECURSIVE LeadShift(_, _)
LeadShift(a, c) == IF a >= c THEN 0 ELSE 1 + LeadShift(2 * a, c)

\* total / count, for an integer total and count > 0: the quotient bits are
\* taken by long division, the integer part and the first fraction bits into
\* hi, the next 27 into lo, and the remainder decides the rounding.
FloatDiv(total, count) ==
    IF total = 0 THEN FloatZero
    ELSE LET z == LeadShift(Abs(total), count)
             a == Abs(total) * 2^z
             q == a \div count
             n == LimbBits - 1 - BitLength(q)
             top == ((a % count) * 2^n) \div count
             r1 == ((a % count) * 2^n) % count
             lo == (r1 * Limb) \div count
             r2 == (r1 * Limb) % count
         IN RoundNearestEven(
               [sign |-> IF total < 0 THEN -1 ELSE 1,
                hi |-> q * 2^n + top, lo |-> lo, exp |-> 0 - (n + LimbBits + z)],
               IF 2 * r2 > count THEN 2 ELSE IF 2 * r2 = count THEN 1 ELSE 0)

\* By how many bits n exceeds the width of hi.
RECURSIVE Excess(_)
Excess(n) == IF n < HiMax THEN 0 ELSE 1 + Excess(n \div 2)

\* count * x, for an integer count > 0 and a float x.
FloatTimes(count, x) ==
    IF x.sign = 0 THEN FloatZero
    ELSE LET lo1 == count * x.lo
             hi1 == count * x.hi + lo1 \div Limb
             lo2 == lo1 % Limb
             k == Excess(hi1)
             dropped == lo2 % 2^k
             half == IF k = 0 THEN 0
                     ELSE IF 2 * dropped > 2^k THEN 2
                     ELSE IF 2 * dropped = 2^k THEN 1 ELSE 0
         IN RoundNearestEven(
               [sign |-> x.sign, hi |-> hi1 \div 2^k,
                lo |-> lo2 \div 2^k + (hi1 % 2^k) * 2^(LimbBits - k),
                exp |-> x.exp + k],
               half)

\* |x| >= |y|, for floats that are not zero.
MagnitudeGeq(x, y) ==
    \/ x.exp > y.exp
    \/ x.exp = y.exp /\ (x.hi > y.hi \/ (x.hi = y.hi /\ x.lo >= y.lo))

\* x >= y
FloatGeq(x, y) ==
    IF x.sign # y.sign THEN x.sign > y.sign
    ELSE IF x.sign = 0 THEN TRUE
    ELSE IF x.sign = 1 THEN MagnitudeGeq(x, y)
    ELSE MagnitudeGeq(y, x)

\* ------------------------------------------------------------- data frames
Perms(n) ==
    {p \in [1..n -> 1..n] : \A i, j \in 1..n : i # j => p[i] # p[j]}

\* glob(os.path.join(STOCK_DIR, "*.csv")): the listing, or [] when the
\* directory cannot be listed (glob does not raise).
glob(dir_exists, listing) == IF dir_exists THEN listing ELSE <<>>

\* os.path.basename(csv_path).split('_')[0]
ticker_of(csv_path) == csv_path

\* os.path.basename(csv_path).replace('.csv', '').split('_', 1)[-1]
name_of(csv_path) == csv_path

\* df['volume'].mean() < min_volume
BelowMinVolumeLenient(mean, minv) == mean < minv - 1
BelowMinVolume(mean, minv) == mean < minv

\* m['trade_count'] >= 3
MeetsMinTradesLenient(m) == m.trade_count >= MinTrades - 1
MeetsMinTrades(m) == m.trade_count >= MinTrades

\* The dict appended to results[strategy_name].
Row(csv_path, m) ==
    [ticker |-> ticker_of(csv_path), name |-> name_of(csv_path),
     total_return |-> m.total_return, sharpe_ratio |-> m.sharpe_ratio,
     max_drawdown |-> m.max_drawdown, win_rate |-> m.win_rate,
     trade_count |-> m.trade_count]

\* df.head(n), n >= 0
head(df, n) == SubSeq(df, 1, Min(n, Len(df)))

\* df[by]: the key column.
keys(df, by) == [i \in DOMAIN df |-> df[i][by]]

\* a >= b for two keys of column 'by': sharpe_ratio is an integer, score a
\* float.
KeyGeq(by, a, b) == IF by = "score" THEN FloatGeq(a, b) ELSE a >= b

\* The permutations a descending sort of the key column can apply: those
\* after which no key is followed by a greater one.
argsortAscending(ks, by) ==
    {p \in Perms(Len(ks)) :
        \A i \in 1..(Len(ks) - 1) : KeyGeq(by, ks[p[i + 1]], ks[p[i]])}
argsort(ks, by) ==
    {p \in Perms(Len(ks)) :
        \A i \in 1..(Len(ks) - 1) : KeyGeq(by, ks[p[i]], ks[p[i + 1]])}

\* The rows of df in the order of permutation p.
take(df, p) == [i \in DOMAIN df |-> df[p[i]]]

\* df.sort_values(by, ascending=False): what the call can return.
sort_values(df, by) == {take(df, p) : p \in argsort(keys(df, by), by)}

\* ------------------------------------------------- compute_overall_ranking
\* "for strategy_name, df in results.items(): ... for _, row in df.iterrows()":
\* the (strategy_name, row) pairs in iteration order; names is the key order
\* of the dict. An empty df contributes nothing ("if df.empty: continue").
RECURSIVE iter_rows(_, _)
iter_rows(res, names) ==
    IF names = <<>>
    THEN <<>>
    ELSE [i \in 1..Len(res[Head(names)]) |->
             [strategy_name |-> Head(names), row |-> res[Head(names)][i]]]
         \o iter_rows(res, Tail(names))

\* stock_stats[ticker] as created at the ticker's first row.
new_stats(row) ==
    [name |-> row.name, strategies |-> <<>>, sharpe_list |-> <<>>,
     return_list |-> <<>>, best_sharpe |-> 0, best_strategy |-> ""]

\* "if row['sharpe_ratio'] > stock_stats[ticker]['best_sharpe']: ..."
track_best(stats, strategy_name, row) ==
    IF row.sharpe_ratio > stats.best_sharpe
    THEN [stats EXCEPT !.best_sharpe = row.sharpe_ratio,
                       !.best_strategy = strategy_name]
    ELSE stats

\* One iteration of the inner loop. acc.order lists the keys of stock_stats
\* in insertion order, acc.stats is the dict.
update_stats(acc, item) ==
    LET t == item.row.ticker
        seen == t \in DOMAIN acc.stats
        old == IF seen THEN acc.stats[t] ELSE new_stats(item.row)
        appended ==
            [old EXCEPT !.strategies = Append(@, item.strategy_name),
                        !.sharpe_list = Append(@, item.row.sharpe_ratio),
                        !.return_list = Append(@, item.row.total_return)]
    IN [order |-> IF seen THEN acc.order ELSE Append(acc.order, t),
        stats |-> (t :> track_best(appended, item.strategy_name, item.row)) @@ acc.stats]

RECURSIVE accumulate(_, _)
accumulate(items, acc) ==
    IF items = <<>> THEN acc ELSE accumulate(Tail(items), update_stats(acc, Head(items)))

\* stock_stats after both loops.
stock_stats(res, names) ==
    accumulate(iter_rows(res, names), [order |-> <<>>, stats |-> <<>>])

\* The dict appended to ranking_data for one ticker. The display string
\* 'strategies' is its two parts: the first three names, and whether the
\* continuation marker follows.
ranking_entryNoCount(t, stats) ==
    LET strategy_count == Len(stats.strategies)
        avg_sharpe == FloatDiv(Sum(stats.sharpe_list), strategy_count)
        avg_return == FloatDiv(Sum(stats.return_list), strategy_count)
    IN [ticker |-> t, name |-> stats.name,
        score |-> avg_sharpe,
        strategy_count |-> strategy_count,
        avg_sharpe |-> avg_sharpe, avg_return |-> avg_return,
        best_strategy |-> stats.best_strategy, best_sharpe |-> stats.best_sharpe,
        strategies |-> [first |-> SubSeq(stats.strategies, 1, Min(ShownStrategies, strategy_count)),
                        more |-> strategy_count > ShownStrategies]]
ranking_entry(t, stats) ==
    LET strategy_count == Len(stats.strategies)
        avg_sharpe == FloatDiv(Sum(stats.sharpe_list), strategy_count)
        avg_return == FloatDiv(Sum(stats.return_list), strategy_count)
    IN [ticker |-> t, name |-> stats.name,
        score |-> FloatTimes(strategy_count, avg_sharpe),
        strategy_count |-> strategy_count,
        avg_sharpe |-> avg_sharpe, avg_return |-> avg_return,
        best_strategy |-> stats.best_strategy, best_sharpe |-> stats.best_sharpe,
        strategies |-> [first |-> SubSeq(stats.strategies, 1, Min(ShownStrategies, strategy_count)),
                        more |-> strategy_count > ShownStrategies]]

ranking_data(acc) ==
    [i \in 1..Len(acc.order) |-> ranking_entry(acc.order[i], acc.stats[acc.order[i]])]

\* compute_overall_ranking(results, top_n): the rankings the call can
\* return (one per order sort_values can leave equal scores in). An empty
\* ranking_data gives the empty frame.
compute_overall_rankingOneLess(res, names, n) ==
    {head(sorted, n - 1) : sorted \in sort_values(ranking_data(stock_stats(res, names)), "score")}
compute_overall_ranking(res, names, n) ==
    {head(sorted, n) : sorted \in sort_values(ranking_data(stock_stats(res, names)), "score")}

\* ---------------------------------------------- market_scan_all_strategies
\* "strategies = get_all_strategies()": the names, in order.
strategies == get_all_strategies(TRUE, INSTITUTIONAL_DATA)

StrategyNames == {strategies[i] : i \in DOMAIN strategies}

csv_path == files[fi]

\* "results = {name: [] for name, _ in strategies}"
empty_results == [name \in StrategyNames |-> <<>>]

\* What engine.run does for one instrument, per position in the battery:
\* the first strategy is answered with 'first', every later one with 'rest'.
engine_answers(first, rest) ==
    [j \in 1..(Len(PriceStrategies) + Len(InstitutionalStrategies)) |->
        IF j = 1 THEN first ELSE rest]

\* "if df_with_inst is None or df_with_inst.empty"
NoInstitutionalFrame(frame) == frame \in {"None", "empty"}

\* The body of the loop over strategies for one (csv_path, strategy_name).
\* st.results is the dict of lists, st.ran what engine.run did for this
\* csv_path so far; frame is df_with_inst and answer what engine.run does if
\* it is called.
run_strategy(st, path, frame, name, answer) ==
    IF IsInstitutional(name) /\ NoInstitutionalFrame(frame)
    THEN st
    ELSE IF answer.status = "raised"
    THEN [st EXCEPT !.ran[name] = Raised]
    ELSE IF MeetsMinTrades(answer.metrics)
    THEN [results |-> [st.results EXCEPT ![name] = Append(@, Row(path, answer.metrics))],
          ran |-> [st.ran EXCEPT ![name] = answer]]
    ELSE [st EXCEPT !.ran[name] = answer]

\* Where the loop over strategies goes on after the inner "except: continue"
\* at position si; last is the number of strategies.
next_after_failureAbort(si, last) == last + 1
next_after_failure(si, last) == si + 1

\* "for strategy_name, strategy in strategies:" from position si on.
RECURSIVE run_strategies(_, _, _, _, _, _)
run_strategies(st, path, frame, names, answers, si) ==
    IF si > Len(names)
    THEN st
    ELSE LET after == run_strategy(st, path, frame, names[si], answers[si])
         IN run_strategies(after, path, frame, names, answers,
                           IF after.ran[names[si]] = Raised
                           THEN next_after_failure(si, Len(names))
                           ELSE si + 1)

\* The loop "for name in results" (lines 212-217) over the names from
\* 'names' on: the dicts of leaderboards it can leave. chosen maps a key
\* column already sorted in this run to the permutation argsort gave for it.
RECURSIVE sort_results(_, _, _, _)
sort_results(res, names, n, chosen) ==
    IF names = <<>>
    THEN {res}
    ELSE LET name == Head(names)
             ks == keys(res[name], "sharpe_ratio")
         IN IF res[name] = <<>>
            THEN sort_results((name :> <<>>) @@ res, Tail(names), n, chosen)
            ELSE IF ks \in DOMAIN chosen
            THEN sort_results((name :> head(take(res[name], chosen[ks]), n)) @@ res,
                              Tail(names), n, chosen)
            ELSE UNION { sort_results((name :> head(take(res[name], p), n)) @@ res,
                                      Tail(names), n, (ks :> p) @@ chosen) :
                           p \in argsort(ks, "sharpe_ratio") }

TypeOK ==
    /\ top_n \in 0..MaxTopN
    /\ min_volume = DefaultMinVolume
    /\ INSTITUTIONAL_DATA \in BOOLEAN
    /\ stock_dir_exists \in BOOLEAN
    /\ pc \in {"file", "rank", "done", "aggregate", "aggregated"}
    /\ fi \in 1..(NumFiles + 1)
    /\ DOMAIN results = StrategyNames
    /\ \A f \in 1..NumFiles : df_with_inst[f] \in {"unset", "None", "empty", "ok"}

Init ==
    /\ top_n \in 1..MaxTopN
    /\ min_volume = DefaultMinVolume
    /\ INSTITUTIONAL_DATA \in BOOLEAN
    /\ stock_dir_exists \in BOOLEAN
    /\ \E n \in 0..NumFiles : files = glob(stock_dir_exists, [i \in 1..n |-> i])
    /\ pc = "file"
    /\ fi = 1
    /\ volume = [f \in 1..NumFiles |-> [status |-> "unread", mean |-> 0]]
    /\ df_with_inst = [f \in 1..NumFiles |-> "unset"]
    /\ engine = [f \in 1..NumFiles |-> [name \in AllNames |-> NotRun]]
    /\ results = empty_results
    /\ overall_ranking = <<>>

\* pd.read_csv(csv_path) or df['volume'] raises: the outer "except: continue".
ReadCsvFails ==
    /\ pc = "file"
    /\ fi <= Len(files)
    /\ volume' = [volume EXCEPT ![csv_path] = [status |-> "raised", mean |-> 0]]
    /\ fi' = fi + 1
    /\ UNCHANGED <<top_n, min_volume, INSTITUTIONAL_DATA, stock_dir_exists, files, pc,
                   df_with_inst, engine, results, overall_ranking>>

\* "if df['volume'].mean() < min_volume: continue"
LowVolume ==
    /\ pc = "file"
    /\ fi <= Len(files)
    /\ \E mean \in MeanVolumes :
          /\ BelowMinVolume(mean, min_volume)
          /\ volume' = [volume EXCEPT ![csv_path] = [status |-> "read", mean |-> mean]]
    /\ fi' = fi + 1
    /\ UNCHANGED <<top_n, min_volume, INSTITUTIONAL_DATA, stock_dir_exists, files, pc,
                   df_with_inst, engine, results, overall_ranking>>

\* The file passes the gate: ticker and name are taken from the path,
\* load_stock_with_institutional(ticker) is tried when the dataset is loaded
\* (it may raise, which leaves df_with_inst None), and every strategy is run.
ScanInstrument ==
    /\ pc = "file"
    /\ fi <= Len(files)
    /\ \E mean \in MeanVolumes :
          /\ ~BelowMinVolume(mean, min_volume)
          /\ volume' = [volume EXCEPT ![csv_path] = [status |-> "read", mean |-> mean]]
    /\ \E loaded \in (IF INSTITUTIONAL_DATA THEN {"None", "empty", "ok"} ELSE {"None"}) :
       \E first, rest \in EngineAnswers :
          LET after == run_strategies([results |-> results, ran |-> engine[csv_path]],
                                      csv_path, loaded, strategies,
                                      engine_answers(first, rest), 1)
          IN /\ df_with_inst' = [df_with_inst EXCEPT ![csv_path] = loaded]
             /\ engine' = [engine EXCEPT ![csv_path] = after.ran]
             /\ results' = after.results
    /\ fi' = fi + 1
    /\ UNCHANGED <<top_n, min_volume, INSTITUTIONAL_DATA, stock_dir_exists, files, pc,
                   overall_ranking>>

\* The loop over files is exhausted: every list becomes a frame, sorted by
\* sharpe_ratio descending and cut at top_n (an empty list an empty frame).
SortResults ==
    /\ pc = "file"
    /\ fi > Len(files)
    /\ results' \in sort_results(results, strategies, top_n, <<>>)
    /\ pc' = "rank"
    /\ UNCHANGED <<top_n, min_volume, INSTITUTIONAL_DATA, stock_dir_exists, files, fi,
                   volume, df_with_inst, engine, overall_ranking>>

\* "overall_ranking = compute_overall_ranking(results)" (top_n is not
\* passed: the callee's default applies), then the return.
Rank ==
    /\ pc = "rank"
    /\ overall_ranking' \in compute_overall_ranking(results, strategies, DefaultTopN)
    /\ pc' = "done"
    /\ UNCHANGED <<top_n, min_volume, INSTITUTIONAL_DATA, stock_dir_exists, files, fi,
                   volume, df_with_inst, engine, results>>

Next ==
    \/ ReadCsvFails
    \/ LowVolume
    \/ ScanInstrument
    \/ SortResults
    \/ Rank

Spec == Init /\ [][Next]_vars

\* --------------------------------- compute_overall_ranking called directly
\* The leaderboards handed to the aggregator, before they are sorted: ticker
\* f is in the first depth[f] of them, with metrics first[f] in the first
\* one and rest[f] in the later ones.
unsorted_results(depth, first, rest) ==
    [name \in StrategyNames |->
        LET j == CHOOSE i \in DOMAIN strategies : strategies[i] = name
            kept(row) == depth[row.ticker] >= j
        IN SelectSeq([f \in 1..NumFiles |-> Row(f, IF j = 1 THEN first[f] ELSE rest[f])],
                     kept)]

\* The metrics a leaderboard row can hold.
AcceptedMetrics == {m \in Metrics : MeetsMinTrades(m)}

InitRank ==
    /\ top_n \in 0..MaxTopN
    /\ min_volume = DefaultMinVolume
    /\ INSTITUTIONAL_DATA = TRUE
    /\ stock_dir_exists = TRUE
    /\ files = glob(stock_dir_exists, [i \in 1..NumFiles |-> i])
    /\ pc = "aggregate"
    /\ fi = 1
    /\ volume = [f \in 1..NumFiles |-> [status |-> "unread", mean |-> 0]]
    /\ df_with_inst = [f \in 1..NumFiles |-> "unset"]
    /\ engine = [f \in 1..NumFiles |-> [name \in AllNames |-> NotRun]]
    /\ \E depth \in [1..NumFiles -> 0..Len(strategies)] :
       \E first, rest \in [1..NumFiles -> AcceptedMetrics] :
          results \in sort_results(unsorted_results(depth, first, rest),
                                   strategies, NumFiles, <<>>)
    /\ overall_ranking = <<>>

\* compute_overall_ranking(results, top_n)
Aggregate ==
    /\ pc = "aggregate"
    /\ overall_ranking' \in compute_overall_ranking(results, strategies, top_n)
    /\ pc' = "aggregated"
    /\ UNCHANGED <<top_n, min_volume, INSTITUTIONAL_DATA, stock_dir_exists, files, fi,
                   volume, df_with_inst, engine, results>>

NextRank == Aggregate

SpecRank == InitRank /\ [][NextRank]_vars

\* ------------------------------------------------- vocabulary of the claims
Tickers(lb) == {lb[i].ticker : i \in DOMAIN lb}

LeaderboardTickers == UNION {Tickers(results[n]) : n \in StrategyNames}

RankedTickers == {overall_ranking[i].ticker : i \in DOMAIN overall_ranking}

\* The leaderboards are final (sorted and truncated).
Sorted == pc \in {"rank", "done"}

\* The file was read and its mean volume is below min_volume.
Illiquid(f) == volume[f].status = "read" /\ volume[f].mean < min_volume

\* The engine returned for (f, n), with fewer than 3 / at least 3 trades.
TooFewTrades(f, n) ==
    engine[f][n].status = "returned" /\ engine[f][n].metrics.trade_count < MinTrades

Accepted(f, n) ==
    engine[f][n].status = "returned" /\ engine[f][n].metrics.trade_count >= MinTrades

\* The rows strategy n kept had every failed pair simply been skipped: the
\* accepted results of the engine, in the order the files were scanned.
accepted_rows(n) ==
    LET F[i \in 0..Len(files)] ==
            IF i = 0 THEN <<>>
            ELSE IF Accepted(files[i], n)
                 THEN Append(F[i - 1], Row(files[i], engine[files[i]][n].metrics))
                 ELSE F[i - 1]
    IN F[Len(files)]

\* Position of a ticker in the scan.
Pos(t) == CHOOSE i \in DOMAIN files : ticker_of(files[i]) = t

\* The leaderboard rows of ticker t, as (name, index) pairs.
Occurrences(t) ==
    {<<n, i>> \in StrategyNames \X (1..NumFiles) :
        i \in DOMAIN results[n] /\ results[n][i].ticker = t}

RECURSIVE SharpeSum(_)
SharpeSum(occ) ==
    IF occ = {} THEN 0
    ELSE LET o == CHOOSE x \in occ : TRUE
         IN results[o[1]][o[2]].sharpe_ratio + SharpeSum(occ \ {o})

RECURSIVE ReturnSum(_)
ReturnSum(occ) ==
    IF occ = {} THEN 0
    ELSE LET o == CHOOSE x \in occ : TRUE
         IN results[o[1]][o[2]].total_return + ReturnSum(occ \ {o})

MaxSharpe(occ) ==
    CHOOSE m \in {results[o[1]][o[2]].sharpe_ratio : o \in occ} :
        \A o \in occ : results[o[1]][o[2]].sharpe_ratio <= m

\* ------------------------------------------------------------------ claims

\* C1. Liquidity gate: no leaderboard (nor any accumulation on the way to
\* it) holds a result of an instrument whose mean volume is below
\* min_volume.
C1_LiquidityGate ==
    \A f \in 1..NumFiles : Illiquid(f) => ticker_of(f) \notin LeaderboardTickers

\* A finished scan with an illiquid instrument and a leaderboard that holds
\* another one.
C1_Witness ==
    /\ pc = "done"
    /\ \E f \in 1..NumFiles : Illiquid(f)
    /\ LeaderboardTickers # {}

\* C2. Activity gate: every retained result has trade_count >= 3; a pair
\* whose backtest returned fewer than 3 trades is absent from that
\* strategy's leaderboard, and the instrument's composite entry counts and
\* averages exactly its leaderboard rows, none of which is of that strategy.
C2_ActivityGate ==
    /\ \A n \in StrategyNames : \A i \in DOMAIN results[n] : results[n][i].trade_count >= MinTrades
    /\ \A f \in 1..NumFiles : \A n \in StrategyNames :
          TooFewTrades(f, n) => ticker_of(f) \notin Tickers(results[n])
    /\ pc = "done" =>
          \A k \in DOMAIN overall_ranking :
             LET e == overall_ranking[k]
                 occ == Occurrences(e.ticker)
             IN /\ e.strategy_count = Cardinality(occ)
                /\ e.avg_sharpe = FloatDiv(SharpeSum(occ), Cardinality(occ))
                /\ e.avg_return = FloatDiv(ReturnSum(occ), Cardinality(occ))
                /\ \A n \in StrategyNames :
                      TooFewTrades(e.ticker, n) =>
                         /\ \A o \in occ : o[1] # n
                         /\ \A j \in DOMAIN e.strategies.first : e.strategies.first[j] # n

\* A finished scan where an instrument had too few trades under one strategy
\* and is in the composite ranking through another.
C2_Witness ==
    /\ pc = "done"
    /\ \E f \in 1..NumFiles : \E n \in StrategyNames :
          /\ TooFewTrades(f, n)
          /\ ticker_of(f) \in RankedTickers

\* C3. Leaderboard bound and order: each final leaderboard has at most top_n
\* members, in non-increasing sharpe_ratio order, and is empty when the
\* strategy has no accepted result.
C3_BoundAndOrder ==
    Sorted =>
       \A n \in StrategyNames :
          /\ Len(results[n]) <= top_n
          /\ \A i \in 1..(Len(results[n]) - 1) :
                results[n][i].sharpe_ratio >= results[n][i + 1].sharpe_ratio
          /\ (\A f \in 1..NumFiles : ~Accepted(f, n)) => results[n] = <<>>

\* A leaderboard of two members that the sort had to reorder, next to an
\* empty one.
C3_Witness ==
    /\ pc = "done"
    /\ \E n \in StrategyNames :
          /\ Len(results[n]) >= 2
          /\ results[n][1].sharpe_ratio > results[n][2].sharpe_ratio
          /\ Pos(results[n][1].ticker) > Pos(results[n][2].ticker)
    /\ \E n \in StrategyNames : results[n] = <<>>

\* C4 as stated. Composite scope: a composite entry exists for ticker T if
\* and only if T appears in at least one leaderboard.
C4_ScopeIff ==
    pc = "aggregated" => RankedTickers = LeaderboardTickers

\* C4 as amended. A composite entry exists only for a ticker of some
\* leaderboard, no ticker has two entries, and the ranking has
\* min(top_n, number of distinct leaderboard tickers) entries: every
\* leaderboard ticker has an entry exactly when there are at most top_n.
C4_ScopeTruncated ==
    pc = "aggregated" =>
       /\ RankedTickers \subseteq LeaderboardTickers
       /\ Cardinality(RankedTickers) = Len(overall_ranking)
       /\ Len(overall_ranking) = Min(top_n, Cardinality(LeaderboardTickers))

\* An aggregation of more distinct tickers than top_n.
C4_Witness ==
    /\ pc = "aggregated"
    /\ Cardinality(LeaderboardTickers) > top_n
    /\ overall_ranking # <<>>

\* C5. Configured size cap: after a scan with top_n, every leaderboard and
\* the composite ranking have at most top_n entries.
C5_SizeCap ==
    pc = "done" =>
       /\ \A n \in StrategyNames : Len(results[n]) <= top_n
       /\ Len(overall_ranking) <= top_n

\* C6. Best-tracking: best_sharpe of an entry is the maximum sharpe ratio of
\* the ticker's leaderboard rows, and when that maximum is > 0, best_strategy
\* is a strategy whose leaderboard has a row of the ticker with that maximum.
C6_BestTracking ==
    pc = "done" =>
       \A k \in DOMAIN overall_ranking :
          LET e == overall_ranking[k]
              occ == Occurrences(e.ticker)
          IN /\ e.best_sharpe = MaxSharpe(occ)
             /\ MaxSharpe(occ) > 0 =>
                   \E o \in occ : /\ o[1] = e.best_strategy
                                  /\ results[o[1]][o[2]].sharpe_ratio = MaxSharpe(occ)

\* C7. Failure isolation: during the scan loop each strategy has
\* accumulated exactly the accepted results of the engine, as if every
\* failed pair had been skipped; every pair of a loaded instrument was run
\* unless it is an institutional strategy without a merged frame; and the
\* final leaderboard is a sorted, truncated arrangement of those rows.
C7_Isolation ==
    /\ pc = "file" => \A n \in StrategyNames : results[n] = accepted_rows(n)
    /\ Sorted =>
          \A i \in DOMAIN files : \A j \in DOMAIN strategies :
             (/\ volume[files[i]].status = "read"
              /\ ~Illiquid(files[i])
              /\ engine[files[i]][strategies[j]] = NotRun)
             => (/\ IsInstitutional(strategies[j])
                 /\ df_with_inst[files[i]] \in {"None", "empty"})
    /\ Sorted =>
          \A n \in StrategyNames :
             results[n] \in {head(sorted, top_n) : sorted \in sort_values(accepted_rows(n), "sharpe_ratio")}

\* A finished scan where the engine failed for one pair, the same instrument
\* is in another strategy's leaderboard and another instrument is in the
\* leaderboard of the strategy that failed.
C7_Witness ==
    /\ pc = "done"
    /\ \E f, g \in 1..NumFiles : \E n, m \in StrategyNames :
          /\ f # g
          /\ n # m
          /\ engine[f][n] = Raised
          /\ ticker_of(f) \in Tickers(results[m])
          /\ ticker_of(g) \in Tickers(results[n])

\* C8. Universe-enumeration failure is surfaced: the scan does not complete
\* normally when the universe could not be enumerated.
C8_EnumerationFailureSurfaced ==
    ~(pc = "done" /\ ~stock_dir_exists)

\* Two floats at most one unit in the last place apart.
Near(x, y) == x = y \/ x = SigUp(y) \/ y = SigUp(x)

\* C9. Score formula: strategy_count is the number of leaderboard rows of
\* the ticker, avg_sharpe their (float) mean sharpe ratio, score is the
\* float product strategy_count x avg_sharpe, which is their sum within one
\* unit in the last place, and the ranking is in non-increasing score order.
C9_ScoreFormula ==
    pc = "aggregated" =>
       /\ \A k \in DOMAIN overall_ranking :
             LET e == overall_ranking[k]
                 occ == Occurrences(e.ticker)
             IN /\ e.strategy_count = Cardinality(occ)
                /\ e.avg_sharpe = FloatDiv(SharpeSum(occ), Cardinality(occ))
                /\ e.score = FloatTimes(e.strategy_count, e.avg_sharpe)
                /\ Near(e.score, FloatDiv(SharpeSum(occ), 1))
       /\ \A k \in 1..(Len(overall_ranking) - 1) :
             FloatGeq(overall_ranking[k].score, overall_ranking[k + 1].score)

\* A ranking of two entries of different scores, one of them of a ticker in
\* more leaderboards than the display lists, whose product was rounded away
\* from the sum.
C9_Witness ==
    /\ pc = "aggregated"
    /\ Len(overall_ranking) >= 2
    /\ overall_ranking[1].score # overall_ranking[2].score
    /\ \E k \in DOMAIN overall_ranking :
          /\ overall_ranking[k].strategies.more
          /\ overall_ranking[k].score
                # FloatDiv(SharpeSum(Occurrences(overall_ranking[k].ticker)), 1)

\* C10. Stable tie-break: in a final leaderboard, of two members with equal
\* sharpe_ratio the one scanned earlier comes first, and an accepted result
\* cut off at top_n was not scanned before a member with the same
\* sharpe_ratio.
C10_StableTieBreak ==
    Sorted =>
       \A n \in StrategyNames :
          /\ \A i, j \in DOMAIN results[n] :
                (i < j /\ results[n][i].sharpe_ratio = results[n][j].sharpe_ratio)
                => Pos(results[n][i].ticker) < Pos(results[n][j].ticker)
          /\ \A a \in DOMAIN accepted_rows(n) : \A i \in DOMAIN results[n] :
                (/\ accepted_rows(n)[a].ticker \notin Tickers(results[n])
                 /\ accepted_rows(n)[a].sharpe_ratio = results[n][i].sharpe_ratio)
                => Pos(results[n][i].ticker) < Pos(accepted_rows(n)[a].ticker)
====
